---- MODULE Spec2Model ----
(***************************************************************************)
(* Model of FlappyEnv (src/flappy_env.py): the gymnasium environment of    *)
(* the Flappy-Square game.                                                 *)
(*                                                                         *)
(* Numbers.  The source computes in Python floats.  Every length and      *)
(* velocity of the game is a multiple of 0.05 (GRAVITY 0.35, FLAP 7.5,     *)
(* speed 3.0 + 0.15 k), so the model keeps them as integers in units of    *)
(* 1/Scale pixel and computes exactly; binary rounding of the floats is    *)
(* not modelled.  Rewards are integers in units of 1/RewardScale.          *)
(***************************************************************************)
EXTENDS Integers, Sequences, FiniteSets, TLC

(* ------------------------------ bounds --------------------------------- *)
MaxTick == 1700       \* steps issued per episode
FlapEvery == 12       \* the driver may flap on ticks that are multiples of this
NumDraws == 2         \* gap offsets tried per random.randint call
MaxAfterDone == 2     \* steps the driver still issues after terminated=true
MaxSeed == 2          \* seeds 1..MaxSeed passed to reset(seed=...)
TwinTicks == 12       \* steps of the two lock-step runs
FallTicks == 60       \* steps of the all-NONE run
GameFrames == 200     \* frames of the standalone game loop
SpawnJitter == 1      \* frames the spawn timer may fire early (slow frames)

(* ----------------------------- constants ------------------------------- *)
Scale == 4 * 5                         \* sub-pixel units per pixel
WIDTH == 480
HEIGHT == 640
GRAVITY == (35 * Scale) \div 100       \* 0.35
FLAP_STRENGTH == 0 - (75 * Scale) \div 10   \* -7.5
PIPE_INTERVAL_TICKS == 90
PIPE_SPEED_START == 3 * Scale          \* 3.0
PIPE_SPEED_INC == (15 * Scale) \div 100    \* 0.15
GAP_START == 170
GAP_MIN == 100
GAP_DEC == 4
SQUARE_SIZE == 38
PIPE_W == 60                           \* _Pipe.__init__ default w
MARGIN == 60                           \* randint(60, HEIGHT - 60 - gap_h)
SQUARE_X == WIDTH \div 4               \* WIDTH // 4

RewardScale == 10 * (HEIGHT \div 2) * Scale    \* reward 1.0
REWARD_STEP == 0 - RewardScale \div 100        \* -0.01
REWARD_PASS == RewardScale                     \* +1.0
REWARD_COLLISION == 0 - RewardScale            \* -1.0

NONE == 0
FLAP == 1
VEL_NORM == 10                         \* self.square.vel / 10 in _get_obs

Max(a, b) == IF a >= b THEN a ELSE b
Abs(a) == IF a >= 0 THEN a ELSE 0 - a
\* int(x) of a float and pygame's float -> int conversion: toward zero
TruncPx(u) == IF u >= 0 THEN u \div Scale ELSE 0 - ((0 - u) \div Scale)

VARIABLES env, ret, call, over, extra, twin, twinRet, game, loop
vars == <<env, ret, call, over, extra, twin, twinRet, game, loop>>

(* ------------------------------ _Square -------------------------------- *)
SquareInit == [y |-> (HEIGHT * Scale) \div 2, vel |-> 0]

\* the impulse with the wrong sign
SquareFlapDown(sq) == [sq EXCEPT !.vel = 0 - FLAP_STRENGTH]

SquareFlap(sq) == [sq EXCEPT !.vel = FLAP_STRENGTH]

\* gravity is never added: the square keeps its velocity
SquareUpdateNoGravity(sq) == [y |-> sq.y + sq.vel, vel |-> sq.vel]

SquareUpdate(sq) == [y |-> sq.y + (sq.vel + GRAVITY), vel |-> sq.vel + GRAVITY]

\* pg.Rect(WIDTH // 4, int(self.y), SQUARE_SIZE, SQUARE_SIZE), in pixels
SquareRect(sq) == [x |-> SQUARE_X, y |-> TruncPx(sq.y), w |-> SQUARE_SIZE, h |-> SQUARE_SIZE]

(* ------------------------------- _Pipe --------------------------------- *)
NewPipe(x, gap_y, gap_h) ==
    [x |-> x, w |-> PIPE_W, gap_y |-> gap_y, gap_h |-> gap_h, passed |-> FALSE]

PipeUpdate(p, speed) == [p EXCEPT !.x = p.x - speed]

PipeRects(p) ==
    << [x |-> TruncPx(p.x), y |-> 0, w |-> p.w, h |-> p.gap_y],
       [x |-> TruncPx(p.x), y |-> p.gap_y + p.gap_h, w |-> p.w,
        h |-> HEIGHT - (p.gap_y + p.gap_h)] >>

\* off screen as soon as the leading edge is (the width forgotten)
PipeOffScreenLeading(p) == p.x < 0

PipeOffScreen(p) == p.x + p.w * Scale < 0

\* pygame.Rect.colliderect: overlap of two rectangles, an empty one never collides
CollideRect(a, b) ==
    /\ a.w > 0 /\ a.h > 0 /\ b.w > 0 /\ b.h > 0
    /\ a.x < b.x + b.w
    /\ a.y < b.y + b.h
    /\ a.x + a.w > b.x
    /\ a.y + a.h > b.y

(* ------------------------------ FlappyEnv ------------------------------ *)
\* the pass test without the `not pipe.passed' guard
PipePassedNowAgain(p) == p.x + p.w * Scale < SQUARE_X * Scale

\* the pass test with <= in place of <
PipePassedNowAtEdge(p) == ~p.passed /\ p.x + p.w * Scale <= SQUARE_X * Scale

\* the pass test on the pipe's leading edge (the width forgotten)
PipePassedNowLeading(p) == ~p.passed /\ p.x < SQUARE_X * Scale

\* the pipe entering the pass test of step's loop
PipePassedNow(p) == ~p.passed /\ p.x + p.w * Scale < SQUARE_X * Scale

\* the gap shrinks without the floor
OnScoreNoFloor(st) ==
    [st EXCEPT !.score = st.score + 1,
               !.reward = st.reward + REWARD_PASS,
               !.pipe_speed = st.pipe_speed + PIPE_SPEED_INC,
               !.gap_h = st.gap_h - GAP_DEC]

\* the difficulty escalation inside the pass branch of step's loop
OnScore(st) ==
    [st EXCEPT !.score = st.score + 1,
               !.reward = st.reward + REWARD_PASS,
               !.pipe_speed = st.pipe_speed + PIPE_SPEED_INC,
               !.gap_h = Max(GAP_MIN, st.gap_h - GAP_DEC)]

\* `for pipe in list(self.pipes)': the pipes are visited in list order, each
\* moved by the speed current at its visit; st.pipes collects the pipes kept
RECURSIVE UpdatePipes(_, _)
UpdatePipes(rest, st) ==
    IF rest = << >> THEN st
    ELSE LET moved == PipeUpdate(Head(rest), st.pipe_speed)
             scored == PipePassedNow(moved)
             p == IF scored THEN [moved EXCEPT !.passed = TRUE] ELSE moved
             st1 == IF scored THEN OnScore(st) ELSE st
             st2 == IF PipeOffScreen(p) THEN st1
                    ELSE [st1 EXCEPT !.pipes = Append(st1.pipes, p)]
         IN UpdatePipes(Tail(rest), st2)

\* only the top rectangle of each pipe is tested
CollidedTopOnly(sq, pipes) ==
    \/ sq.y < 0
    \/ sq.y + SQUARE_SIZE * Scale > HEIGHT * Scale
    \/ \E i \in 1..Len(pipes) :
          CollideRect([x |-> SQUARE_X, y |-> TruncPx(sq.y), w |-> SQUARE_SIZE, h |-> SQUARE_SIZE],
                      [x |-> TruncPx(pipes[i].x), y |-> 0, w |-> pipes[i].w, h |-> pipes[i].gap_y])

Collided(sq, pipes) ==
    \/ sq.y < 0
    \/ sq.y + SQUARE_SIZE * Scale > HEIGHT * Scale
    \/ \E i \in 1..Len(pipes) : \E k \in 1..2 :
          CollideRect(SquareRect(sq), PipeRects(pipes[i])[k])

\* pipes whose trailing edge has not passed the square, and the first of
\* those with the smallest x (Python's min keeps the first minimum)
Upcoming(pipes) ==
    {i \in 1..Len(pipes) : pipes[i].x + pipes[i].w * Scale >= SQUARE_X * Scale}

NextPipe(pipes) ==
    LET up == Upcoming(pipes)
    IN IF up = {} THEN 0
       ELSE CHOOSE i \in up : \A j \in up :
               \/ pipes[i].x < pipes[j].x
               \/ (pipes[i].x = pipes[j].x /\ i <= j)

\* gap_centre = gap_y + gap_h / 2, in sub-pixel units
GapCentre(p) == p.gap_y * Scale + (p.gap_h * Scale) \div 2

\* the distance normalised by the full height instead of half of it
ProximityFullHeight(sq, p) == (HEIGHT \div 2) * Scale - Abs(sq.y - GapCentre(p)) \div 2

\* 0.1 * (1 - dist / (HEIGHT / 2)) in reward units
Proximity(sq, p) == (HEIGHT \div 2) * Scale - Abs(sq.y - GapCentre(p))

\* _get_obs before the division by the normalising constants:
\* <<vert, horiz, vel, gap_h - GAP_MIN>> over <<HEIGHT/2, WIDTH, 10, GAP_START - GAP_MIN>>
GetObs(e) ==
    LET n == NextPipe(e.pipes)
    IN IF n = 0
       THEN << 0, WIDTH * Scale, e.square.vel, e.gap_h - GAP_MIN >>
       ELSE << e.square.y - GapCentre(e.pipes[n]),
               e.pipes[n].x + e.pipes[n].w * Scale - SQUARE_X * Scale,
               e.square.vel,
               e.pipes[n].gap_h - GAP_MIN >>

\* reset that leaves the pipe list of the previous episode in place
ResetEnvKeepPipes(e, seed) ==
    [square |-> [y |-> (HEIGHT * Scale) \div 2, vel |-> 0], pipes |-> e.pipes, tick |-> 0,
     pipe_speed |-> PIPE_SPEED_START, gap_h |-> GAP_START, score |-> 0,
     np_random |-> IF seed = 0 THEN e.np_random ELSE seed]

\* reset that leaves the pipe speed of the previous episode in place
ResetEnvKeepSpeed(e, seed) ==
    [square |-> [y |-> (HEIGHT * Scale) \div 2, vel |-> 0], pipes |-> << >>, tick |-> 0,
     pipe_speed |-> e.pipe_speed, gap_h |-> GAP_START, score |-> 0,
     np_random |-> IF seed = 0 THEN e.np_random ELSE seed]

\* reset(seed): super().reset(seed=seed) seeds self.np_random when a seed is given
ResetEnv(e, seed) ==
    [square |-> SquareInit, pipes |-> << >>, tick |-> 0,
     pipe_speed |-> PIPE_SPEED_START, gap_h |-> GAP_START, score |-> 0,
     np_random |-> IF seed = 0 THEN e.np_random ELSE seed]

ResetRet(e) == [obs |-> GetObs(e), reward |-> 0, done |-> FALSE]

\* the range of random.randint(60, HEIGHT - 60 - self.gap_h)
DrawLo == MARGIN
\* the upper end without the gap height
DrawHiNoGap(gap) == HEIGHT - MARGIN

DrawHi(gap) == HEIGHT - MARGIN - gap
\* NumDraws values of that range, both ends included
Draws(gap) ==
    {DrawLo + (i * (DrawHi(gap) - DrawLo)) \div (NumDraws - 1) : i \in 0..(NumDraws - 1)}

\* the spawn test one tick early
SpawnDueEarly(e) == (e.tick + 1) % PIPE_INTERVAL_TICKS = 0

SpawnDue(e) == e.tick % PIPE_INTERVAL_TICKS = 0

\* the tick is counted a second time on a spawn tick
NextTickTwiceOnSpawn(t) == IF t % PIPE_INTERVAL_TICKS = 0 THEN t + 2 ELSE t + 1

\* the tick counter after a step
NextTick(t) == t + 1

\* step(action) with gap_y the value random.randint returns (read only when a pipe spawns)
StepEnv(e, action, gap_y) ==
    LET sq == SquareUpdate(IF action = FLAP THEN SquareFlap(e.square) ELSE e.square)
        spawned == IF SpawnDue(e)
                   THEN Append(e.pipes, NewPipe(WIDTH * Scale, gap_y, e.gap_h))
                   ELSE e.pipes
        st == UpdatePipes(spawned, [pipes |-> << >>, pipe_speed |-> e.pipe_speed,
                                    gap_h |-> e.gap_h, score |-> e.score,
                                    reward |-> REWARD_STEP])
        collided == Collided(sq, st.pipes)
        r1 == IF collided THEN REWARD_COLLISION ELSE st.reward
        n == NextPipe(st.pipes)
        r2 == IF n # 0 THEN r1 + Proximity(sq, st.pipes[n]) ELSE r1
        e2 == [square |-> sq, pipes |-> st.pipes, tick |-> NextTick(e.tick),
               pipe_speed |-> st.pipe_speed, gap_h |-> st.gap_h, score |-> st.score,
               np_random |-> e.np_random]
    IN [env |-> e2, ret |-> [obs |-> GetObs(e2), reward |-> r2, done |-> collided]]

(* ------------------- flappy_square.py: the standalone game ------------- *)
\* flappy_square.py repeats the constants of flappy_env.py with the same values;
\* the square's rect.y is an integer pixel, its velocity and the pipes' x are floats
FPS == 60
PIPE_INTERVAL == 1500                  \* milliseconds between spawn events
SPAWN_FRAMES == (PIPE_INTERVAL * FPS) \div 1000

\* Square(WIDTH // 4, HEIGHT // 2)
GameSquareInit == [y |-> HEIGHT \div 2, vel |-> 0]

\* Square.update: self.vel += GRAVITY; self.rect.y += int(self.vel)
GameSquareUpdate(sq) == [y |-> sq.y + TruncPx(sq.vel + GRAVITY), vel |-> sq.vel + GRAVITY]

\* PipePair(x, gap_y, gap_height); rx is rect_top.x = rect_bottom.x
NewPipePair(x, gap_y, gap_height) ==
    [x |-> x * Scale, rx |-> x, gap_y |-> gap_y, gap_height |-> gap_height, passed |-> FALSE]

\* PipePair.update
PipePairUpdate(p, speed) == [p EXCEPT !.x = p.x - speed, !.rx = TruncPx(p.x - speed)]

PipePairOffScreen(p) == p.x + PIPE_W * Scale < 0

PipePairRects(p) ==
    << [x |-> p.rx, y |-> 0, w |-> PIPE_W, h |-> p.gap_y],
       [x |-> p.rx, y |-> p.gap_y + p.gap_height, w |-> PIPE_W,
        h |-> HEIGHT - (p.gap_y + p.gap_height)] >>

GameSquareRect(sq) == [x |-> SQUARE_X, y |-> sq.y, w |-> SQUARE_SIZE, h |-> SQUARE_SIZE]

\* the state main() sets up before its loop
GameInit ==
    [square |-> GameSquareInit, pipes |-> << >>, score |-> 0,
     pipe_speed |-> PIPE_SPEED_START, gap_height |-> GAP_START,
     game_over |-> FALSE, running |-> TRUE]

\* the `# Restart' branch of the SPACE / UP handler
GameRestart(g) ==
    [g EXCEPT !.square = GameSquareInit, !.pipes = << >>, !.score = 0,
              !.pipe_speed = PIPE_SPEED_START, !.gap_height = GAP_START,
              !.game_over = FALSE]

\* KEYDOWN of SPACE or UP: restart when the game is over, then flap
GameKeyFlap(g) ==
    LET g1 == IF g.game_over THEN GameRestart(g) ELSE g
    IN [g1 EXCEPT !.square.vel = FLAP_STRENGTH]

\* the spawn event: a new pipe pair unless the game is over
GameSpawn(g, gap_y) ==
    IF g.game_over THEN g
    ELSE [g EXCEPT !.pipes = Append(g.pipes, NewPipePair(WIDTH, gap_y, g.gap_height))]

\* `for pipe in pipes': move, then the pass test against square.rect.x
RECURSIVE GameUpdatePipes(_, _)
GameUpdatePipes(rest, g) ==
    IF rest = << >> THEN g
    ELSE LET moved == PipePairUpdate(Head(rest), g.pipe_speed)
             scored == ~moved.passed /\ moved.x + PIPE_W * Scale < SQUARE_X * Scale
             p == IF scored THEN [moved EXCEPT !.passed = TRUE] ELSE moved
             g1 == IF scored
                   THEN [g EXCEPT !.score = g.score + 1,
                                  !.pipe_speed = g.pipe_speed + PIPE_SPEED_INC,
                                  !.gap_height = Max(GAP_MIN, g.gap_height - GAP_DEC)]
                   ELSE g
         IN GameUpdatePipes(Tail(rest), [g1 EXCEPT !.pipes = Append(g1.pipes, p)])

GameCollided(g) ==
    \/ \E i \in 1..Len(g.pipes) : \E k \in 1..2 :
          CollideRect(GameSquareRect(g.square), PipePairRects(g.pipes[i])[k])
    \/ g.square.y < 0
    \/ g.square.y + SQUARE_SIZE > HEIGHT

\* the body of `if not game_over:' in the update section
GameTick(g) ==
    LET g1 == [g EXCEPT !.square = GameSquareUpdate(g.square)]
        g2 == GameUpdatePipes(g1.pipes, [g1 EXCEPT !.pipes = << >>])
        g3 == [g2 EXCEPT !.pipes = SelectSeq(g2.pipes, LAMBDA p : ~PipePairOffScreen(p))]
    IN [g3 EXCEPT !.game_over = GameCollided(g3)]

\* the update section runs its body whether or not the game is over
GameUpdateUnguarded(g) == GameTick(g)

\* the update section of one frame
GameUpdate(g) == IF g.game_over THEN g ELSE GameTick(g)

\* the frame counter, the frames since the spawn timer last fired, whether a flap
\* key was handled in this frame, and the last thing the loop did
LoopInit == [frame |-> 0, since |-> 0, keyed |-> FALSE, last |-> "start"]

(* ------------------------------ the driver ----------------------------- *)
\* the state after FlappyEnv() and the first reset(), as play_agent.py sets it up
InitEnv ==
    [square |-> SquareInit, pipes |-> << >>, tick |-> 0,
     pipe_speed |-> PIPE_SPEED_START, gap_h |-> GAP_START, score |-> 0,
     np_random |-> 0]

\* the state of the spec's Game Loop the driver has seen: Ready after reset,
\* Terminated once a step has returned terminated=true, Running otherwise
Phase == IF over THEN "Terminated" ELSE IF env.tick = 0 THEN "Ready" ELSE "Running"

Init ==
    /\ env = InitEnv
    /\ ret = ResetRet(InitEnv)
    /\ call = [op |-> "reset", action |-> NONE, seed |-> 0, phase |-> "Ready"]
    /\ over = FALSE
    /\ extra = 0
    /\ twin = InitEnv
    /\ twinRet = ResetRet(InitEnv)
    /\ game = GameInit
    /\ loop = LoopInit

\* env.reset(), as play_agent.py calls it (no seed), from any state
Reset ==
    /\ env' = ResetEnv(env, 0)
    /\ ret' = ResetRet(env')
    /\ call' = [op |-> "reset", action |-> NONE, seed |-> 0, phase |-> Phase]
    /\ over' = FALSE
    /\ extra' = 0
    /\ UNCHANGED <<twin, twinRet, game, loop>>

Actions(e) == IF e.tick % FlapEvery = 0 THEN {NONE, FLAP} ELSE {NONE}

GapInputs(e) == IF SpawnDue(e) THEN Draws(e.gap_h) ELSE {0}

\* env.step(action); the code accepts it in every state
Step ==
    /\ env.tick < MaxTick
    /\ over => extra < MaxAfterDone
    /\ \E action \in Actions(env) : \E gap_y \in GapInputs(env) :
         LET out == StepEnv(env, action, gap_y)
         IN /\ env' = out.env
            /\ ret' = out.ret
            /\ call' = [op |-> "step", action |-> action, seed |-> 0, phase |-> Phase]
            /\ over' = (over \/ out.ret.done)
            /\ extra' = IF over THEN extra + 1 ELSE 0
    /\ UNCHANGED <<twin, twinRet, game, loop>>

Next == Reset \/ Step

Spec == Init /\ [][Next]_vars

(* ---- two runs of the same seed and the same actions, in lock step ----- *)
\* reset(seed=s) in both runs
TwinReset ==
    \E s \in 1..MaxSeed :
       /\ env' = ResetEnv(env, s)
       /\ twin' = ResetEnv(twin, s)
       /\ ret' = ResetRet(env')
       /\ twinRet' = ResetRet(twin')
       /\ call' = [op |-> "reset", action |-> NONE, seed |-> s, phase |-> Phase]
       /\ over' = FALSE
       /\ extra' = 0
       /\ UNCHANGED <<game, loop>>

\* step(action) in both runs; each run's random.randint draws from the state of
\* the module-level generator of `random', which reset(seed) does not set
TwinStep ==
    /\ env.np_random # 0
    /\ env.tick < TwinTicks
    /\ \E action \in Actions(env) :
         \E g1 \in GapInputs(env) : \E g2 \in GapInputs(twin) :
           LET o1 == StepEnv(env, action, g1)
               o2 == StepEnv(twin, action, g2)
           IN /\ env' = o1.env
              /\ twin' = o2.env
              /\ ret' = o1.ret
              /\ twinRet' = o2.ret
              /\ call' = [op |-> "step", action |-> action, seed |-> env.np_random,
                          phase |-> Phase]
              /\ over' = (over \/ o1.ret.done)
              /\ extra' = IF over THEN extra + 1 ELSE 0
    /\ UNCHANGED <<game, loop>>

TwinNext == TwinReset \/ TwinStep

SpecTwin == Init /\ [][TwinNext]_vars

(* --------------- the run in which every action is NONE ----------------- *)
FallStep ==
    /\ env.tick < FallTicks
    /\ \E gap_y \in GapInputs(env) :
         LET out == StepEnv(env, NONE, gap_y)
         IN /\ env' = out.env
            /\ ret' = out.ret
            /\ call' = [op |-> "step", action |-> NONE, seed |-> 0, phase |-> Phase]
            /\ over' = (over \/ out.ret.done)
            /\ extra' = IF over THEN extra + 1 ELSE 0
    /\ UNCHANGED <<twin, twinRet, game, loop>>

\* the driver keeps stepping: a step that can be issued is issued
SpecFall == Init /\ [][FallStep]_vars /\ WF_vars(FallStep)

(* ---------------- the loop of the standalone game ---------------------- *)
\* a SPACE / UP key press in this frame's event queue
GameKey ==
    /\ game.running
    /\ ~loop.keyed
    /\ loop.frame % FlapEvery = 0
    /\ game' = GameKeyFlap(game)
    /\ loop' = [loop EXCEPT !.keyed = TRUE,
                            !.last = IF game.game_over THEN "restart" ELSE "flap"]
    /\ UNCHANGED <<env, ret, call, over, extra, twin, twinRet>>

\* the spawn timer's event in this frame's event queue
GameSpawnEvent ==
    /\ game.running
    /\ loop.since >= SPAWN_FRAMES - SpawnJitter
    /\ \E gap_y \in Draws(game.gap_height) : game' = GameSpawn(game, gap_y)
    /\ loop' = [loop EXCEPT !.since = 0,
                            !.last = IF game.game_over THEN "spawn ignored" ELSE "spawn"]
    /\ UNCHANGED <<env, ret, call, over, extra, twin, twinRet>>

\* QUIT, Esc or Q: the loop ends
GameQuit ==
    /\ game.running
    /\ game' = [game EXCEPT !.running = FALSE]
    /\ loop' = [loop EXCEPT !.last = "quit"]
    /\ UNCHANGED <<env, ret, call, over, extra, twin, twinRet>>

\* the rest of the frame once its events are handled: the update section
GameFrame ==
    /\ game.running
    /\ loop.frame < GameFrames
    /\ loop.since < SPAWN_FRAMES
    /\ game' = GameUpdate(game)
    /\ loop' = [frame |-> loop.frame + 1, since |-> loop.since + 1, keyed |-> FALSE,
                last |-> "frame"]
    /\ UNCHANGED <<env, ret, call, over, extra, twin, twinRet>>

GameNext == GameKey \/ GameSpawnEvent \/ GameQuit \/ GameFrame

SpecGame == Init /\ [][GameNext]_vars

(* ============================== claims ================================= *)
IsStep == call.op = "step"
IsReset == call.op = "reset"
OutOfBounds == env.square.y < 0 \/ env.square.y + SQUARE_SIZE * Scale > HEIGHT * Scale

\* C1: once a step has returned terminated=true, a further step without a reset
\* changes nothing of the episode state (it fails or is a no-op).
C1_NoTickAfterTerminated == [][(over /\ over') => env' = env]_vars

\* C2: two runs of reset(seed=S) followed by the same actions return the same
\* observations, rewards and terminated flags.
C2_SeededRunsAgree == (env.np_random # 0 /\ env.np_random = twin.np_random) => ret = twinRet

\* C3: a step that detects a collision returns terminated=true and a reward of
\* exactly -1.0.
C3_CollisionRewardIsMinusOne == (IsStep /\ ret.done) => ret.reward = REWARD_COLLISION

\* C4: across the steps of an episode the score never decreases, the obstacle
\* speed never decreases, and the gap height never increases and stays >= GAP_MIN.
C4_MonotoneDifficulty ==
    [][call'.op = "step" =>
          /\ env'.score >= env.score
          /\ env'.pipe_speed >= env.pipe_speed
          /\ env'.gap_h <= env.gap_h
          /\ env'.gap_h >= GAP_MIN]_vars
C4_Witness == IsStep /\ env.score >= 19 /\ env.gap_h = GAP_MIN /\ ~over

C6_TickCountsSteps ==
    [][/\ call'.op = "reset" => env'.tick = 0
       /\ call'.op = "step" => env'.tick = env.tick + 1]_vars
C6_Witness == IsStep /\ env.tick = PIPE_INTERVAL_TICKS + 1

\* C7 as stated: after reset and one step(FLAP) the velocity is FLAP_STRENGTH and
\* the step returns terminated=false.
C7_VelocityIsFlapStrength ==
    (IsStep /\ env.tick = 1 /\ call.action = FLAP)
        => (env.square.vel = FLAP_STRENGTH /\ ~ret.done)

\* C7 amended: after reset and one step(FLAP) the velocity is FLAP_STRENGTH + GRAVITY
\* (the impulse followed by one tick of gravity) and the step returns terminated=false.
C7_VelocityIsFlapPlusGravity ==
    (IsStep /\ env.tick = 1 /\ call.action = FLAP)
        => (env.square.vel = FLAP_STRENGTH + GRAVITY /\ ~ret.done)
C7_Witness == IsStep /\ env.tick = 1 /\ call.action = FLAP /\ call.phase = "Ready"

\* C8: reset from any state restores the whole initial episode state.
C8_ResetRestoresInitialState ==
    IsReset =>
        /\ env.square.y = (HEIGHT * Scale) \div 2
        /\ env.square.vel = 0
        /\ env.pipes = << >>
        /\ env.tick = 0
        /\ env.pipe_speed = PIPE_SPEED_START
        /\ env.gap_h = GAP_START
        /\ env.score = 0
        /\ ~over
        /\ ~ret.done
C8_Witness == IsReset /\ call.phase = "Terminated"

\* C9: from the post-reset state with every action NONE the square falls on every
\* tick, and the episode terminates by leaving the screen at the bottom.
C9_FallsAndTerminates ==
    /\ [][call'.op = "step" => env'.square.y > env.square.y]_vars
    /\ <>(ret.done /\ env.square.y + SQUARE_SIZE * Scale > HEIGHT * Scale)
    /\ [](ret.done => env.square.y + SQUARE_SIZE * Scale > HEIGHT * Scale)
C9_Witness == IsStep /\ ret.done /\ call.phase = "Running"

\* C10: a step returns terminated=true exactly when, after the tick's updates, the
\* square's vertical extent leaves [0, HEIGHT] or its pixel rectangle shares a pixel
\* with the top or bottom rectangle of a live pipe.
PixelsOf(lo, size) == lo..(lo + size - 1)
SquarePixelsX == PixelsOf(SQUARE_X, SQUARE_SIZE)
SquarePixelsY == PixelsOf(TruncPx(env.square.y), SQUARE_SIZE)
SharesPixel(p) ==
    /\ SquarePixelsX \cap PixelsOf(TruncPx(p.x), p.w) # {}
    /\ \/ SquarePixelsY \cap PixelsOf(0, p.gap_y) # {}
       \/ SquarePixelsY \cap PixelsOf(p.gap_y + p.gap_h, HEIGHT - (p.gap_y + p.gap_h)) # {}
C10_TerminatedIffCollision ==
    IsStep => (ret.done <=> (OutOfBounds \/ \E i \in 1..Len(env.pipes) : SharesPixel(env.pipes[i])))
C10_Witness == IsStep /\ ret.done /\ ~OutOfBounds /\ call.phase = "Running"

\* C11: every observation returned by reset or by a step that does not terminate
\* lies in the declared observation space, each component within [-1, 1].
InObservationSpace(obs) ==
    /\ Abs(obs[1]) <= (HEIGHT \div 2) * Scale
    /\ Abs(obs[2]) <= WIDTH * Scale
    /\ Abs(obs[3]) <= VEL_NORM * Scale
    /\ Abs(obs[4]) <= GAP_START - GAP_MIN
C11_ObservationInBox == (IsReset \/ ~ret.done) => InObservationSpace(ret.obs)

\* C12: on a step without collision the reward is -0.01, plus 1.0 for each pipe
\* flagged passed on that tick, plus the shaping term against the nearest upcoming
\* pipe when there is one, and nothing else.
UpcomingPipes(e) ==
    {i \in 1..Len(e.pipes) : e.pipes[i].x + PIPE_W * Scale >= SQUARE_X * Scale}
IsNearest(e, i) == i \in UpcomingPipes(e) /\ \A j \in UpcomingPipes(e) : e.pipes[i].x <= e.pipes[j].x
ShapingOf(e, i) ==
    (HEIGHT \div 2) * Scale
        - Abs(e.square.y - (e.pipes[i].gap_y * Scale + (e.pipes[i].gap_h * Scale) \div 2))
C12_RewardComposition ==
    [][(call'.op = "step" /\ ~ret'.done) =>
          LET base == REWARD_STEP + REWARD_PASS * (env'.score - env.score)
          IN IF UpcomingPipes(env') = {}
             THEN ret'.reward = base
             ELSE \E i \in UpcomingPipes(env') :
                     IsNearest(env', i) /\ ret'.reward = base + ShapingOf(env', i)]_vars
C12_Witness == IsStep /\ ~ret.done /\ ~over /\ ret.reward > REWARD_PASS \div 2
                  /\ UpcomingPipes(env) # {}

\* The pipes a step works on, oldest first: the live ones and, on a spawn tick, the
\* new one; the pipes live after the step are the last Len(env'.pipes) of them.
IsSpawnTick(t) == t % PIPE_INTERVAL_TICKS = 0
Worked == env.pipes \o (IF IsSpawnTick(env.tick)
                        THEN << [x |-> WIDTH * Scale, passed |-> FALSE] >> ELSE << >>)
NRetired == Len(Worked) - Len(env'.pipes)
TrailingEdge(p) == p.x + PIPE_W * Scale
EntityX == SQUARE_X * Scale

\* C13: within one step every live pipe moves by the same amount, the obstacle
\* speed in effect at the start of the tick.
C13_UniformAdvance ==
    [][call'.op = "step" =>
          \A j \in 1..Len(env'.pipes) :
              env'.pipes[j].x = Worked[NRetired + j].x - env.pipe_speed]_vars

\* C14: a pipe's passed flag only goes from false to true, on the first tick at
\* which its trailing edge is strictly left of WIDTH//4; the score grows by exactly
\* 1 for each such flag, and equals the number of pipes flagged since reset,
\* live or retired.
SpawnedBy(t) == (t + PIPE_INTERVAL_TICKS - 1) \div PIPE_INTERVAL_TICKS
LivePassed(e) == {i \in 1..Len(e.pipes) : e.pipes[i].passed}
FlaggedNow == {j \in 1..Len(env'.pipes) :
                  env'.pipes[j].passed /\ ~Worked[NRetired + j].passed}
C14_ScoredExactlyOnce ==
    [][call'.op = "step" =>
          /\ NRetired >= 0
          /\ \A j \in 1..Len(env'.pipes) :
                /\ Worked[NRetired + j].passed => env'.pipes[j].passed
                /\ j \in FlaggedNow =>
                      /\ TrailingEdge(env'.pipes[j]) < EntityX
                      /\ TrailingEdge(Worked[NRetired + j]) >= EntityX
                /\ ~env'.pipes[j].passed => TrailingEdge(env'.pipes[j]) >= EntityX
          /\ env'.score = env.score + Cardinality(FlaggedNow)
          /\ env'.score = (SpawnedBy(env'.tick) - Len(env'.pipes))
                              + Cardinality(LivePassed(env'))]_vars
C14_Witness == IsStep /\ ~over /\ env.score = 3 /\ Cardinality(LivePassed(env)) = 1
                  /\ Len(env.pipes) = 2

\* C15: a step creates exactly one pipe when the tick before its increment is a
\* multiple of PIPE_INTERVAL_TICKS and none otherwise; the new pipe starts at
\* x = WIDTH with the gap height of that moment and is advanced in the same tick.
SamePipe(old, new) == old.gap_y = new.gap_y /\ old.gap_h = new.gap_h /\ new.x < old.x
C15_SpawnCadence ==
    [][call'.op = "step" =>
          LET n == Len(env'.pipes)
              kept == IF IsSpawnTick(env.tick) THEN n - 1 ELSE n
          IN /\ kept >= 0
             /\ kept <= Len(env.pipes)
             /\ \A j \in 1..kept :
                   SamePipe(env.pipes[Len(env.pipes) - kept + j], env'.pipes[j])
             /\ IsSpawnTick(env.tick) =>
                   /\ env'.pipes[n].gap_h = env.gap_h
                   /\ ~env'.pipes[n].passed
                   /\ env'.pipes[n].x < WIDTH * Scale
                   /\ env'.pipes[n].x >= WIDTH * Scale - env'.pipe_speed]_vars
C15_Witness == IsStep /\ ~over /\ env.tick = 2 * PIPE_INTERVAL_TICKS + 1 /\ Len(env.pipes) = 2

\* C16: the range of the gap-offset draw is never empty, and the gap of every live
\* pipe lies inside the screen margins with a height in [GAP_MIN, GAP_START].
C16_GapFitsOnScreen ==
    /\ MARGIN <= HEIGHT - MARGIN - env.gap_h
    /\ \A i \in 1..Len(env.pipes) :
          /\ MARGIN <= env.pipes[i].gap_y
          /\ env.pipes[i].gap_y + env.pipes[i].gap_h <= HEIGHT - MARGIN
          /\ GAP_MIN <= env.pipes[i].gap_h
          /\ env.pipes[i].gap_h <= GAP_START
C16_Witness ==
    \E i \in 1..Len(env.pipes) :
        /\ env.pipes[i].gap_h = GAP_MIN
        /\ env.pipes[i].gap_y + env.pipes[i].gap_h = HEIGHT - MARGIN

\* C17: after a step no live pipe has its trailing edge below 0, a pipe is retired
\* only when its trailing edge has gone below 0, and only after it was flagged passed.
C17_Retirement ==
    [][call'.op = "step" =>
          /\ \A j \in 1..Len(env'.pipes) : TrailingEdge(env'.pipes[j]) >= 0
          /\ NRetired >= 0
          /\ \A k \in 1..NRetired :
                /\ TrailingEdge(Worked[k]) - env.pipe_speed < 0
                /\ Worked[k].passed]_vars
C17_Witness == IsStep /\ ~over /\ SpawnedBy(env.tick) > Len(env.pipes)

\* C18: after every step a live pipe is flagged passed exactly when its trailing
\* edge is strictly left of WIDTH//4; the pipe the observation is taken against is
\* unpassed and is the oldest unpassed live pipe.
C18_PassedIffBehind ==
    /\ \A i \in 1..Len(env.pipes) :
          env.pipes[i].passed <=> TrailingEdge(env.pipes[i]) < EntityX
    /\ \A i \in 1..Len(env.pipes) :
          IsNearest(env, i) =>
              /\ ~env.pipes[i].passed
              /\ \A j \in 1..(i - 1) : env.pipes[j].passed
              /\ ret.obs[2] = TrailingEdge(env.pipes[i]) - EntityX
              /\ ret.obs[4] = env.pipes[i].gap_h - GAP_MIN
C18_Witness ==
    /\ IsStep /\ ~over
    /\ \E i \in 1..Len(env.pipes) :
          IsNearest(env, i) /\ TrailingEdge(env.pipes[i]) = EntityX

\* C19: a pipe flagged passed shares no pixel with the square, in the tick it is
\* flagged and in every later tick while it is live.
C19_PassedNeverCollides ==
    \A i \in 1..Len(env.pipes) : env.pipes[i].passed => ~SharesPixel(env.pipes[i])
C19_Witness ==
    /\ IsStep /\ ~over /\ ~OutOfBounds
    /\ \E i \in 1..Len(env.pipes) :
          /\ env.pipes[i].passed
          /\ TruncPx(env.square.y) + SQUARE_SIZE > env.pipes[i].gap_y + env.pipes[i].gap_h

\* C20: in the standalone game, while game_over stays set nothing of the game
\* changes (no tick, no pipe from a spawn event); the SPACE / UP press that clears
\* it restores score 0, no pipes, a centred square, PIPE_SPEED_START and GAP_START.
GameFields(g) == << g.square, g.pipes, g.score, g.pipe_speed, g.gap_height >>
C20_GameOverFreezes ==
    [][/\ (game.game_over /\ game'.game_over) => GameFields(game') = GameFields(game)
       /\ (game.game_over /\ ~game'.game_over) =>
             /\ game'.score = 0
             /\ game'.pipes = << >>
             /\ game'.square.y = HEIGHT \div 2
             /\ game'.pipe_speed = PIPE_SPEED_START
             /\ game'.gap_height = GAP_START]_vars
C20_Witness == game.game_over /\ loop.last = "spawn ignored" /\ game.pipes # << >>

====
